---- MODULE Spec2Model ----
(***************************************************************************)
(* Model of ftl/common/builder.py: the RuntimeBase container builder.      *)
(*                                                                         *)
(* State: the args object handed to the constructor (which the constructor *)
(* mutates), the fields of the builder, the base-image handle, the list of *)
(* layer images a concrete builder hands to AppendLayersIntoImage, the     *)
(* composite it got back, and the outside world (archive files, registry   *)
(* pushes, the log).  One action per method of RuntimeBase.                *)
(*                                                                         *)
(* Python values: an optional string option is a record [t, v] with        *)
(* t = "none" (None), "str" (v = the characters) or "list" (v = the tokens *)
(* str.split produced).  Optional paths are TLA+ strings, NONE for None.   *)
(***************************************************************************)
EXTENDS Integers, Sequences, FiniteSets, TLC

\* ---------------------------------------------------------------- bounds
\* longest entrypoint / exposed_ports string enumerated exhaustively
MaxStrLen == 3
\* most non-base layer images handed to AppendLayersIntoImage
MaxLayers == 2
\* most diff ids, in total, carried by the non-base layer images
MaxDiffs == 2
\* most method calls made on one builder
MaxOps == 3

\* builder.py:32
THREADS == 32

VARIABLES
    args_in,       \* the option values as the caller set them (never changed)
    args,          \* the args object (mutated by __init__)
    pc,            \* "Uninitialized", "Configured", "ConstructFailed", "Discarded"
    self,          \* the builder's fields
    held,          \* the base-image handle is entered and not exited
    lyr_imgs,      \* the layer images a concrete builder composes
    result_image,  \* what AppendLayersIntoImage returned, NoImage before
    effects,       \* what the last AppendLayersIntoImage call did
    store_arg,     \* the image handed to the last StoreImage call
    stored,        \* number of StoreImage calls that returned normally
    tar_files,     \* archive files on disk: path -> content
    pushes,        \* uploads made to registries, in order
    log,           \* logging.info messages
    last,          \* outcome of the last call
    ops            \* method calls made on the builder

vars == <<args_in, args, pc, self, held, lyr_imgs, result_image, effects,
          store_arg, stored, tar_files, pushes, log, last, ops>>

\* ------------------------------------------------------- python values
NONE == "<None>"
None == [t |-> "none", v |-> <<>>]
Str(s) == [t |-> "str", v |-> s]
List(l) == [t |-> "list", v |-> l]

\* Python truthiness of an optional string or list: None, "" and [] are false.
Truthy(x) == x.t # "none" /\ x.v # <<>>
\* Python truthiness of an optional path.
TruthyPath(p) == p # NONE /\ p # ""

Chars == {"a", " "}
StrsUpTo(n) == UNION {[1..k -> Chars] : k \in 0..n}
ABC == <<"a", " ", "b", " ", "c">>

RECURSIVE FirstSpace(_, _)
\* index of the first " " of s at or after i, 0 when there is none
FirstSpace(s, i) ==
    IF i > Len(s) THEN 0
    ELSE IF s[i] = " " THEN i
    ELSE FirstSpace(s, i + 1)

RECURSIVE Split(_)
\* str.split(" "): cut at every single space, empty tokens kept
Split(s) ==
    LET i == FirstSpace(s, 1)
    IN  IF i = 0 THEN <<s>>
        ELSE <<SubSeq(s, 1, i - 1)>> \o Split(SubSeq(s, i + 1, Len(s)))

\* `if args.x is not None:` in place of `if args.x:`
SplitOptionNotNone(x) == IF x.t # "none" THEN List(Split(x.v)) ELSE x

\* `if args.x: args.x = args.x.split(" ")` (lines 77-80)
SplitOption(x) == IF Truthy(x) THEN List(Split(x.v)) ELSE x

\* ------------------------------------------- names, credentials, images
\* docker_name.Tag(ref): the parsed reference
Tag(ref) == [tag |-> ref]
\* docker_creds.DefaultKeychain.Resolve(name): the credentials kept for name
Resolve(name) == [creds_of |-> name.tag]
\* name.as_repository()
AsRepository(name) == [repository_of |-> name.tag]
\* transport_pool.Http(httplib2.Http, size=n)
Http(n) == [pool_size |-> n]

DiffIds == {"d1", "d2", "d3"}
\* the blob digest the manifest of an image lists for the layer with diff id d
DigestOf(d) == <<"sha256", d>>
MkImage(ds, c) ==
    [diff_ids |-> ds, layers |-> [i \in 1..Len(ds) |-> DigestOf(ds[i])], cfg |-> c]
NoImage == [diff_ids |-> <<>>, layers |-> <<>>, cfg |-> "<no image>"]

\* base images: the config file of a base is "c0"
B0 == MkImage(<<"d0">>, "c0")
B1 == MkImage(<<"d0", "d1">>, "c0")
Bases == {B0, B1}

\* config file of a layer image: "c1" parses, "bad" makes CfgDctToOverrides raise
LayerCfgs == {"c1", "bad"}
DiffSeqs(n) == UNION {[1..k -> DiffIds] : k \in 0..n}
LayerImgs == {MkImage(ds, c) : ds \in DiffSeqs(MaxDiffs), c \in LayerCfgs}

RECURSIVE SumLens(_)
SumLens(ls) ==
    IF ls = <<>> THEN 0 ELSE Len(ls[1].diff_ids) + SumLens(Tail(ls))

\* every list of layer images within the bounds, the empty list included
AllInputs ==
    {<<>>} \cup
    {<<b>> \o ls : b \in Bases,
                   ls \in {x \in UNION {[1..k -> LayerImgs] : k \in 0..MaxLayers} :
                              SumLens(x) <= MaxDiffs}}
\* the lists a build of the lifecycle specification composes
SmallInputs ==
    {<<>>, <<B0>>, <<B0, MkImage(<<"d1">>, "c1")>>, <<B0, MkImage(<<"d1">>, "bad")>>}

\* FromTarball(path) / FromRegistry(name, creds, transport): the handle
FromTarball(path) == [source |-> "tarball", from |-> path, image |-> B0]
FromRegistry(name, creds, transport) ==
    [source |-> "registry", from |-> name.tag, image |-> B0]

\* cache.Registry(...)
Registry(repo, namespace, base_image, creds, transport, cache_version, threads, mount, use_global) ==
    [repo |-> repo, namespace |-> namespace, base_image |-> base_image,
     creds |-> creds, transport |-> transport, cache_version |-> cache_version,
     threads |-> threads, mount |-> mount, use_global |-> use_global]

NoSelf == [constructed |-> FALSE]

\* ------------------------------------------------------------ arguments
OptStrings == {None} \cup {Str(s) : s \in StrsUpTo(MaxStrLen) \cup {ABC}}

DefaultArgs ==
    [entrypoint |-> None, exposed_ports |-> None,
     base |-> "gcr.io/base:latest", name |-> "gcr.io/app:v1",
     tar_base_image_path |-> NONE, cache_repository |-> NONE,
     global_cache |-> FALSE, output_path |-> NONE, upload |-> FALSE]

\* the option strings vary, the rest is the default
CfgArgs ==
    {[DefaultArgs EXCEPT !.entrypoint = e, !.exposed_ports = p] :
        e \in OptStrings, p \in OptStrings}

\* the store and source options vary
StoreArgs ==
    {[DefaultArgs EXCEPT !.entrypoint = Str(<<"a", " ", "a">>),
                         !.tar_base_image_path = t, !.cache_repository = c,
                         !.output_path = o, !.upload = u] :
        t \in {NONE, "/tmp/base.tar"}, c \in {NONE, "gcr.io/cache"},
        o \in {NONE, "", "/tmp/out.tar"}, u \in BOOLEAN}

\* -------------------------------------------------- AppendLayersIntoImage
\* lyr_img.GetImage(): the image a layer builder holds
GetImage(lyr_img) == lyr_img

RECURSIVE IndexOf(_, _, _)
IndexOf(seq, x, i) ==
    IF i > Len(seq) THEN 0 ELSE IF seq[i] = x THEN i ELSE IndexOf(seq, x, i + 1)

\* img._diff_id_to_digest(diff_id): the digest listed at the diff id's position
DiffIdToDigest(img, diff_id) == img.layers[IndexOf(img.diff_ids, diff_id, 1)]
\* img.blob(digest): the compressed layer stored under digest
Blob(img, digest) == [gz_of |-> digest]
\* the digest append.Layer computes of a blob
Sha256(blob) == blob.gz_of

\* json.loads(img.config_file()) then ftl_util.CfgDctToOverrides: raises on "bad"
Parses(img) == img.cfg # "bad"
CfgDctToOverrides(img) == [cfg |-> img.cfg]

\* append.Layer(base, lyr, diff_id=, overrides=): base with one more layer
AppendLayer(base, lyr, diff_id, overrides) ==
    [diff_ids |-> Append(base.diff_ids, diff_id),
     layers   |-> Append(base.layers, Sha256(lyr)),
     cfg      |-> overrides.cfg]

\* acc: [image, ok, reads, parsed, appends], the accumulator and what was done
RECURSIVE DiffIdLoopBreak(_, _, _)
DiffIdLoopBreak(acc, img, k) ==
    IF k > Len(img.diff_ids) \/ k > 1 \/ ~acc.ok THEN acc
    ELSE LET diff_id == img.diff_ids[k]
             lyr == Blob(img, DiffIdToDigest(img, diff_id))
         IN  IF ~Parses(img)
             THEN [acc EXCEPT !.ok = FALSE, !.reads = @ + 1]
             ELSE DiffIdLoopBreak(
                    [image   |-> AppendLayer(acc.image, lyr, diff_id,
                                             CfgDctToOverrides(img)),
                     ok      |-> TRUE,
                     reads   |-> acc.reads + 1,
                     parsed  |-> acc.parsed + 1,
                     appends |-> acc.appends + 1], img, k + 1)

RECURSIVE DiffIdLoop(_, _, _)
\* `for diff_id in diff_ids:` from the k-th diff id on (lines 121-127)
DiffIdLoop(acc, img, k) ==
    IF k > Len(img.diff_ids) \/ ~acc.ok THEN acc
    ELSE LET diff_id == img.diff_ids[k]
             lyr == Blob(img, DiffIdToDigest(img, diff_id))
         IN  IF ~Parses(img)
             THEN [acc EXCEPT !.ok = FALSE, !.reads = @ + 1]
             ELSE DiffIdLoop(
                    [image   |-> AppendLayer(acc.image, lyr, diff_id,
                                             CfgDctToOverrides(img)),
                     ok      |-> TRUE,
                     reads   |-> acc.reads + 1,
                     parsed  |-> acc.parsed + 1,
                     appends |-> acc.appends + 1], img, k + 1)

Fresh(img) == [image |-> img, ok |-> TRUE, reads |-> 0, parsed |-> 0, appends |-> 0]

RECURSIVE LayerLoopNoContinue(_, _, _)
LayerLoopNoContinue(acc, imgs, i) ==
    IF i > Len(imgs) \/ ~acc.ok THEN acc
    ELSE LayerLoopNoContinue(
           DiffIdLoop(IF i = 1 THEN Fresh(imgs[1]) ELSE acc, GetImage(imgs[i]), 1),
           imgs, i + 1)

RECURSIVE LayerLoopEarlyReturn(_, _, _)
LayerLoopEarlyReturn(acc, imgs, i) ==
    IF i > Len(imgs) \/ ~acc.ok THEN acc
    ELSE IF i = 1 THEN Fresh(imgs[1])
    ELSE LayerLoopEarlyReturn(DiffIdLoop(acc, GetImage(imgs[i]), 1), imgs, i + 1)

RECURSIVE LayerLoop(_, _, _)
\* `for i, lyr_img in enumerate(lyr_imgs):` from the i-th element on (lines 115-127)
LayerLoop(acc, imgs, i) ==
    IF i > Len(imgs) \/ ~acc.ok THEN acc
    ELSE IF i = 1 THEN LayerLoop(Fresh(imgs[1]), imgs, 2)
    ELSE LayerLoop(DiffIdLoop(acc, GetImage(imgs[i]), 1), imgs, i + 1)

\* the whole call: on an empty list result_image is never bound and the
\* `return result_image` raises
Compose(imgs) ==
    IF imgs = <<>> THEN [Fresh(NoImage) EXCEPT !.ok = FALSE]
    ELSE LayerLoop(Fresh(NoImage), imgs, 1)

\* ---------------------------------------------------------------- state
NoEffects == [reads |-> 0, parsed |-> 0, appends |-> 0]

InitWith(a, l) ==
    /\ args_in = a
    /\ args = a
    /\ pc = "Uninitialized"
    /\ self = NoSelf
    /\ held = FALSE
    /\ lyr_imgs = l
    /\ result_image = NoImage
    /\ effects = NoEffects
    /\ store_arg = NoImage
    /\ stored = 0
    /\ tar_files = {}
    /\ pushes = <<>>
    /\ log = <<>>
    /\ last = "none"
    /\ ops = 0

\* builds that differ in their options
Init ==
    \E a \in CfgArgs \cup StoreArgs, l \in SmallInputs :
        /\ a \in StoreArgs \/ l = <<B0>>
        /\ InitWith(a, l)

\* builds that differ in the layer images they compose
InitAppend == \E l \in AllInputs : InitWith(DefaultArgs, l)

\* ------------------------------------------------------------- __init__
\* RuntimeBase(ctx, namespace, args, cache_version_str, descriptor_files).
\* fail: "enter" - the base image cannot be opened, __enter__ raises;
\*       "cache" - cache.Registry raises, after the handle was entered.
Construct ==
    /\ pc = "Uninitialized"
    /\ \E fail \in {"none", "enter", "cache"} :
        LET a == [args EXCEPT !.entrypoint = SplitOption(@),
                              !.exposed_ports = SplitOption(@)]
            base_name == Tag(a.base)
            base_creds == Resolve(base_name)
            target_image == Tag(a.name)
            target_creds == Resolve(target_image)
            transport == Http(THREADS)
            base_image == IF TruthyPath(a.tar_base_image_path)
                          THEN FromTarball(a.tar_base_image_path)
                          ELSE FromRegistry(base_name, base_creds, transport)
            cache_repo == IF TruthyPath(a.cache_repository)
                          THEN a.cache_repository
                          ELSE AsRepository(target_image)
        IN  /\ args' = a
            /\ held' = (fail # "enter")
            /\ IF fail = "none"
               THEN /\ pc' = "Configured"
                    /\ last' = "init_ok"
                    /\ self' = [namespace |-> "ns", args |-> a,
                                base_name |-> base_name, base_creds |-> base_creds,
                                target_image |-> target_image,
                                target_creds |-> target_creds,
                                transport |-> transport, base_image |-> base_image,
                                cache |-> Registry(cache_repo, "ns", base_image,
                                                   target_creds, transport, "v1",
                                                   THREADS, <<base_name>>,
                                                   a.global_cache),
                                descriptor_files |-> <<"descriptor">>]
               ELSE /\ pc' = "ConstructFailed"
                    /\ last' = "init_failed"
                    /\ self' = self
    /\ UNCHANGED <<args_in, lyr_imgs, result_image, effects, store_arg, stored,
                   tar_files, pushes, log, ops>>

\* ---------------------------------------------------------------- Build
BuildOrchestrates ==
    /\ pc = "Configured"
    /\ ops < MaxOps
    /\ Compose(lyr_imgs).ok
    /\ result_image' = Compose(lyr_imgs).image
    /\ store_arg' = Compose(lyr_imgs).image
    /\ stored' = stored + 1
    /\ last' = "build_ok"
    /\ ops' = ops + 1
    /\ UNCHANGED <<args_in, args, pc, self, held, lyr_imgs, effects, tar_files,
                   pushes, log>>

\* RuntimeBase.Build: `return`
Build ==
    /\ pc = "Configured"
    /\ ops < MaxOps
    /\ last' = "build_ok"
    /\ ops' = ops + 1
    /\ UNCHANGED <<args_in, args, pc, self, held, lyr_imgs, result_image, effects,
                   store_arg, stored, tar_files, pushes, log>>

\* ------------------------------------------------- AppendLayersIntoImage
\* a concrete builder calls self.AppendLayersIntoImage(lyr_imgs)
AppendLayersIntoImage ==
    /\ pc = "Configured"
    /\ ops < MaxOps
    /\ LET r == Compose(lyr_imgs)
       IN  /\ result_image' = IF r.ok THEN r.image ELSE result_image
           /\ effects' = [reads |-> r.reads, parsed |-> r.parsed,
                          appends |-> r.appends]
           /\ last' = IF r.ok THEN "append_ok" ELSE "append_failed"
    /\ ops' = ops + 1
    /\ UNCHANGED <<args_in, args, pc, self, held, lyr_imgs, store_arg, stored,
                   tar_files, pushes, log>>

\* ----------------------------------------------------------- StoreImage
\* outcome of the I/O of one call: it succeeds, the archive or the session
\* cannot be opened, or writing / uploading fails part way
IoOutcomes == {"ok", "fail_open", "fail_body"}

\* tarfile.open(name=path, mode='w') replaces the file at path
WriteFile(files, f) == {g \in files : g.path # f.path} \cup {f}

\* lines 133-135: the archive at output_path after the archive branch
SaveTarball(result, io) ==
    IF io = "fail_open" THEN tar_files
    ELSE WriteFile(tar_files, [path |-> args.output_path,
                               target |-> self.target_image,
                               image |-> result, complete |-> (io = "ok")])

\* lines 132, 136-137: the log after the archive branch (Timing logs on exit)
SaveLog(io) ==
    Append(IF io = "ok"
           THEN Append(log, <<"tarball located at", args.output_path>>)
           ELSE log,
           <<"saving_tarball_image", "took">>)

PushWithBaseCreds(result) ==
    [name |-> self.target_image, creds |-> self.base_creds,
     transport |-> self.transport, threads |-> THREADS,
     mount |-> <<self.base_name>>, image |-> result, complete |-> TRUE]

\* lines 141-148: docker_session.Push(...) and session.upload(result_image)
Push(result) ==
    [name |-> self.target_image, creds |-> self.target_creds,
     transport |-> self.transport, threads |-> THREADS,
     mount |-> <<self.base_name>>, image |-> result, complete |-> TRUE]

\* the uploads made after the upload branch
Upload(result, io) ==
    IF io = "fail_open" THEN pushes
    ELSE Append(pushes, [Push(result) EXCEPT !.complete = (io = "ok")])

\* lines 140, 147: the log after the upload branch
PushLog(io) ==
    Append(IF io = "fail_open" THEN log ELSE Append(log, <<"Pushing final image...">>),
           <<"pushing_image_to_docker_registry", "took">>)

\* the call returns, or the exception of the failed I/O propagates
Returns(io) ==
    /\ stored' = IF io = "ok" THEN stored + 1 ELSE stored
    /\ last' = IF io = "ok" THEN "store_ok" ELSE "store_failed"

\* the `return` of line 138 missing: the upload test follows the archive
StoreImageFallThrough(result, io) ==
    /\ pc = "Configured"
    /\ ops < MaxOps
    /\ store_arg' = result
    /\ ops' = ops + 1
    /\ IF TruthyPath(args.output_path)
       THEN /\ tar_files' = SaveTarball(result, io)
            /\ log' = SaveLog(io)
            /\ pushes' = IF args.upload /\ io = "ok" THEN Upload(result, io) ELSE pushes
            /\ Returns(io)
       ELSE IF args.upload
       THEN /\ pushes' = Upload(result, io)
            /\ log' = PushLog(io)
            /\ tar_files' = tar_files
            /\ Returns(io)
       ELSE /\ UNCHANGED <<tar_files, pushes, log>>
            /\ Returns("ok")
    /\ UNCHANGED <<args_in, args, pc, self, held, lyr_imgs, result_image, effects>>

\* the test of line 139 missing: whatever is not archived is pushed
StoreImageAlwaysUpload(result, io) ==
    /\ pc = "Configured"
    /\ ops < MaxOps
    /\ store_arg' = result
    /\ ops' = ops + 1
    /\ IF TruthyPath(args.output_path)
       THEN /\ tar_files' = SaveTarball(result, io)
            /\ log' = SaveLog(io)
            /\ pushes' = pushes
            /\ Returns(io)
       ELSE /\ pushes' = Upload(result, io)
            /\ log' = PushLog(io)
            /\ tar_files' = tar_files
            /\ Returns(io)
    /\ UNCHANGED <<args_in, args, pc, self, held, lyr_imgs, result_image, effects>>

\* RuntimeBase.StoreImage(result_image), lines 130-149
StoreImage(result, io) ==
    /\ pc = "Configured"
    /\ ops < MaxOps
    /\ store_arg' = result
    /\ ops' = ops + 1
    /\ IF TruthyPath(args.output_path)
       THEN /\ tar_files' = SaveTarball(result, io)
            /\ log' = SaveLog(io)
            /\ pushes' = pushes
            /\ Returns(io)
       ELSE IF args.upload
       THEN /\ pushes' = Upload(result, io)
            /\ log' = PushLog(io)
            /\ tar_files' = tar_files
            /\ Returns(io)
       ELSE /\ UNCHANGED <<tar_files, pushes, log>>
            /\ Returns("ok")
    /\ UNCHANGED <<args_in, args, pc, self, held, lyr_imgs, result_image, effects>>

\* the images a concrete builder may hand to StoreImage: the composite it got
\* from AppendLayersIntoImage, or the base image when nothing was composed
StoreCandidates ==
    {self.base_image.image} \cup (IF result_image = NoImage THEN {} ELSE {result_image})

Store ==
    /\ pc = "Configured"
    /\ \E result \in StoreCandidates, io \in IoOutcomes : StoreImage(result, io)

\* -------------------------------------------------------------- teardown
\* The caller drops the builder.  RuntimeBase defines no __exit__, __del__ or
\* close, and no method calls self._base_image.__exit__: nothing is released.
Discard ==
    /\ pc = "Configured"
    /\ pc' = "Discarded"
    /\ UNCHANGED <<args_in, args, self, held, lyr_imgs, result_image, effects,
                   store_arg, stored, tar_files, pushes, log, last, ops>>

Next ==
    \/ Construct
    \/ Build
    \/ AppendLayersIntoImage
    \/ Store
    \/ Discard

Spec == Init /\ [][Next]_vars
SpecAppend == InitAppend /\ [][Next]_vars

\* ================================================================ claims
RECURSIVE FlatDiffIds(_)
\* the diff ids of a list of images, one image after the other
FlatDiffIds(imgs) ==
    IF imgs = <<>> THEN <<>> ELSE imgs[1].diff_ids \o FlatDiffIds(Tail(imgs))

\* C1: the composite AppendLayersIntoImage returns for [base, layer_1 .. layer_n]
\* has the diff ids of the base followed by those of layer_1 .. layer_n in input
\* order; one layer is appended per diff id of the non-base layers and none
\* for the base.
C1_DiffIdsConcatenated ==
    result_image # NoImage =>
        /\ lyr_imgs # <<>>
        /\ result_image.diff_ids =
             lyr_imgs[1].diff_ids \o FlatDiffIds(Tail(lyr_imgs))
        /\ effects.appends = SumLens(Tail(lyr_imgs))

C1_Witness ==
    /\ result_image # NoImage
    /\ Len(lyr_imgs) = 3
    /\ lyr_imgs[2].diff_ids # <<>>
    /\ lyr_imgs[3].diff_ids # <<>>
    /\ lyr_imgs[2].diff_ids # lyr_imgs[3].diff_ids

\* C8: on a one-element list [img] AppendLayersIntoImage returns img itself:
\* nothing is appended, no config file is parsed, no blob is read, and the call
\* does not fail.
C8_SingleIsIdentity ==
    Len(lyr_imgs) = 1 =>
        /\ last # "append_failed"
        /\ result_image \in {NoImage, lyr_imgs[1]}
        /\ effects = NoEffects

C8_Witness ==
    /\ Len(lyr_imgs) = 1
    /\ result_image = lyr_imgs[1]
    /\ last = "append_ok"

\* C10, as claimed: a non-base layer whose config file does not parse makes
\* AppendLayersIntoImage fail, so no composite is returned - also when that
\* layer has no diff ids.
C10_MalformedIsFatal ==
    (\E i \in 2..Len(lyr_imgs) : ~Parses(lyr_imgs[i])) =>
        /\ last # "append_ok"
        /\ result_image = NoImage

\* the non-base layers of imgs in the order p
Permuted(imgs, p) ==
    <<imgs[1]>> \o [i \in 1..(Len(imgs) - 1) |-> imgs[1 + p[i]]]

NonIdentity(n) == {p \in Permutations(1..n) : \E i \in 1..n : p[i] # i}

\* C7, as claimed: with more than one non-base layer, every other order of the
\* non-base layers gives a composite with a different diff-id sequence.
C7_AnyPermutationDiffers ==
    (result_image # NoImage /\ Len(lyr_imgs) > 2) =>
        \A p \in NonIdentity(Len(lyr_imgs) - 1) :
            Compose(Permuted(lyr_imgs, p)).image.diff_ids # result_image.diff_ids

NoRepeats(seq) == \A i, j \in DOMAIN seq : seq[i] = seq[j] => i = j

\* every layer has a diff id and no diff id occurs twice among the layers
DistinctLayers(ls) ==
    /\ \A i \in DOMAIN ls : ls[i].diff_ids # <<>>
    /\ NoRepeats(FlatDiffIds(ls))

\* C7, amended: with more than one non-base layer, each with at least one diff
\* id and no diff id occurring twice among them, every other order of the
\* non-base layers gives a composite with a different diff-id sequence.
C7_OrderSensitive ==
    (result_image # NoImage /\ Len(lyr_imgs) > 2 /\ DistinctLayers(Tail(lyr_imgs))) =>
        \A p \in NonIdentity(Len(lyr_imgs) - 1) :
            /\ Compose(Permuted(lyr_imgs, p)).ok
            /\ Compose(Permuted(lyr_imgs, p)).image.diff_ids # result_image.diff_ids

C7_Witness ==
    /\ result_image # NoImage
    /\ Len(lyr_imgs) > 2
    /\ DistinctLayers(Tail(lyr_imgs))

\* the archive StoreImage is to leave at output_path for the image it was given
ExpectedArchive ==
    [path |-> args.output_path, target |-> Tag(args.name),
     image |-> store_arg, complete |-> TRUE]

\* C2: with output_path set, whatever upload is, StoreImage never pushes, and
\* a call that returns has written, at output_path and nowhere else, the archive
\* of the target reference and the image it was given; archive files and pushes
\* never both exist.
C2_ArchiveOnly ==
    /\ TruthyPath(args.output_path) =>
          /\ pushes = <<>>
          /\ \A f \in tar_files : f.path = args.output_path
          /\ last = "store_ok" => tar_files = {ExpectedArchive}
    /\ ~(tar_files # {} /\ pushes # <<>>)

C2_Witness ==
    /\ TruthyPath(args.output_path)
    /\ args.upload
    /\ last = "store_ok"
    /\ store_arg = result_image

Completed(ps) == {i \in DOMAIN ps : ps[i].complete}

\* C3: with upload set and output_path unset, every StoreImage call that
\* returns has made exactly one push, of the image it was given, to the target
\* reference, with the target's credentials and the mount list [base
\* reference]; no archive file is written.
C3_UploadOnly ==
    (args.upload /\ ~TruthyPath(args.output_path)) =>
        /\ tar_files = {}
        /\ Cardinality(Completed(pushes)) = stored
        /\ \A i \in DOMAIN pushes :
              /\ pushes[i].name = Tag(args.name)
              /\ pushes[i].creds = Resolve(Tag(args.name))
              /\ pushes[i].creds # Resolve(Tag(args.base))
              /\ pushes[i].mount = <<Tag(args.base)>>
        /\ last = "store_ok" =>
              /\ pushes # <<>>
              /\ pushes[Len(pushes)].image = store_arg
              /\ pushes[Len(pushes)].complete

C3_Witness ==
    /\ args.upload
    /\ ~TruthyPath(args.output_path)
    /\ last = "store_ok"
    /\ stored = 1
    /\ store_arg = result_image

\* C4: with neither output_path nor upload set, StoreImage returns without
\* raising and changes nothing outside: no archive, no push, no log line.
C4_NeitherIsNoOp ==
    (~args.upload /\ ~TruthyPath(args.output_path)) =>
        /\ last # "store_failed"
        /\ tar_files = {}
        /\ pushes = <<>>
        /\ log = <<>>

C4_Witness ==
    /\ ~args.upload
    /\ ~TruthyPath(args.output_path)
    /\ last = "store_ok"
    /\ stored > 0

\* the state of the RuntimeBuilder state machine the builder is in
Phase ==
    IF pc = "Uninitialized" \/ pc = "ConstructFailed" THEN "Uninitialized"
    ELSE IF stored > 0 THEN "Stored"
    ELSE IF result_image # NoImage THEN "Composed"
    ELSE "Configured"

C6_HandleReleased ==
    pc \in {"Discarded", "ConstructFailed"} => ~held

RECURSIVE Join(_)
\* " ".join(tokens)
Join(tokens) ==
    IF Len(tokens) = 1 THEN tokens[1]
    ELSE tokens[1] \o <<" ">> \o Join(Tail(tokens))

\* what __init__ is to make of the option value x
SplitAsSpecified(x, y) ==
    IF Truthy(x)
    THEN /\ y.t = "list"
         /\ Len(y.v) >= 1
         /\ \A i \in DOMAIN y.v : \A j \in DOMAIN y.v[i] : y.v[i][j] # " "
         /\ Join(y.v) = x.v
    ELSE y = x

\* C9: once __init__ has run, an entrypoint / exposed_ports option that was
\* set and non-empty is the list of its tokens, cut at every single space, in
\* order ("a b c" gives ["a", "b", "c"]); an option that was None or "" is as it
\* was, never a list; each option is split by its own value alone.
C9_ConfigSplitting ==
    pc # "Uninitialized" =>
        /\ SplitAsSpecified(args_in.entrypoint, args.entrypoint)
        /\ SplitAsSpecified(args_in.exposed_ports, args.exposed_ports)
        /\ args_in.entrypoint = Str(ABC) =>
              args.entrypoint = List(<<<<"a">>, <<"b">>, <<"c">>>>)

C9_Witness ==
    /\ pc = "Configured"
    /\ args_in.entrypoint = Str(ABC)
    /\ args_in.exposed_ports = Str(<<>>)
    /\ args.entrypoint.t = "list"
    /\ args.exposed_ports.t = "str"

====
